---- MODULE Spec2Model ----
(***************************************************************************)
(* State-machine model of photo_terminal/tui.py: the interactive image     *)
(* selector (ImageSelector.run, the two compositor paths, the render cache *)
(* and the background pre-load threads) and its entry point select_images. *)
(* Indices are 0-based as in the source; images[i+1] is the source's       *)
(* images[i].                                                              *)
(***************************************************************************)
EXTENDS Naturals, Integers, Sequences, FiniteSets, Bags, TLC

\* ------------------------------------------------------------------ bounds
MaxImages == 2
MaxKeys == 2
MaxThreads == 1
\* the sessions in which the pre-load threads are started but never scheduled
MaxLoopImages == 3
MaxLoopKeys == 3
\* the sessions over every environment
MaxDetectImages == 1
MaxDetectKeys == 1
\* the sessions in windows of several sizes
MaxGeometryImages == 2
MaxGeometryKeys == 1
\* the sessions with a viu that may print more lines than asked
MaxLinesImages == 2
MaxLinesKeys == 1
\* the sessions whose standard input is a given sequence of bytes
MaxBytes == 3
\* the value at which the history counters stop counting
CountCap == 3
\* the runs of main that go on after the selection
MaxUploadImages == 2

\* candidate paths handed over by the scanner (distinct absolute paths)
PathNames == <<"a.jpg", "b.jpg", "c.jpg", "d.jpg", "e.jpg", "f.jpg">>

\* the attributes the terminal has when select_images is called
CookedMode == "cooked"

\* ------------------------------------------------------- program constants
file_list_width == 55
graphics_image_column == 60

Min2(a, b) == IF a < b THEN a ELSE b
Max2(a, b) == IF a > b THEN a ELSE b

\* --------------------------------------------- TerminalCapabilities (pure)
\* os.environ.get(name) is None when the variable is not set
Unset == "<unset>"
\* Python truthiness of os.environ.get(name): None and '' are falsy
Truthy(v) == v # Unset /\ v # ""
\* TERM is held as the sequence of its word fragments; `w in term`
Contains(term, w) == \E i \in 1..Len(term) : term[i] = w

\* detection that looks at the terminal program before the multiplexers
detect_graphics_protocol_multiplexerLast(env) ==
    IF env.TERM_PROGRAM = "iTerm.app" THEN "iterm"
    ELSE IF env.TERM_PROGRAM = "ghostty" \/ Contains(env.TERM, "ghostty") THEN "kitty"
    ELSE IF Contains(env.TERM, "kitty") \/ env.TERM = <<"xterm-", "kitty">> THEN "kitty"
    ELSE IF Contains(env.TERM, "sixel") THEN "sixel"
    ELSE IF Truthy(env.TMUX) \/ Truthy(env.STY) THEN "blocks"
    ELSE "blocks"

\* detection that tests for Sixel before Ghostty and Kitty
detect_graphics_protocol_sixelFirst(env) ==
    IF Truthy(env.TMUX) \/ Truthy(env.STY) THEN "blocks"
    ELSE IF env.TERM_PROGRAM = "iTerm.app" THEN "iterm"
    ELSE IF Contains(env.TERM, "sixel") THEN "sixel"
    ELSE IF env.TERM_PROGRAM = "ghostty" \/ Contains(env.TERM, "ghostty") THEN "kitty"
    ELSE IF Contains(env.TERM, "kitty") \/ env.TERM = <<"xterm-", "kitty">> THEN "kitty"
    ELSE "blocks"

detect_graphics_protocol(env) ==
    IF Truthy(env.TMUX) \/ Truthy(env.STY) THEN "blocks"
    ELSE IF env.TERM_PROGRAM = "iTerm.app" THEN "iterm"
    ELSE IF env.TERM_PROGRAM = "ghostty" \/ Contains(env.TERM, "ghostty") THEN "kitty"
    ELSE IF Contains(env.TERM, "kitty") \/ env.TERM = <<"xterm-", "kitty">> THEN "kitty"
    ELSE IF Contains(env.TERM, "sixel") THEN "sixel"
    ELSE "blocks"

supports_inline_images(env) == detect_graphics_protocol(env) \in {"iterm", "kitty", "sixel"}

\* the sessions explored: a plain xterm in an 80x24 window (block path) and
\* iTerm2 in a 130x50 window (graphics path)
Sessions ==
    { [env |-> [TMUX |-> Unset, STY |-> Unset, TERM_PROGRAM |-> "",
                TERM |-> <<"xterm-256color">>],
       size |-> [columns |-> 80, lines |-> 24]],
      [env |-> [TMUX |-> Unset, STY |-> Unset, TERM_PROGRAM |-> "iTerm.app",
                TERM |-> <<"xterm-256color">>],
       size |-> [columns |-> 130, lines |-> 50]] }

\* the environments detection is explored over: each multiplexer variable
\* unset, empty or set; TERM_PROGRAM unset, a marker, or a near miss of one;
\* TERM unset ('' by default) or built from the marker fragments
TmuxValues == {Unset, "", "/tmp/tmux-1000/default,4242,0"}
StyValues == {Unset, "", "4242.pts-0.host"}
TermProgramValues == {Unset, "iTerm.app", "ghostty", "iTerm.app2", "Apple_Terminal"}
TermValues ==
    { <<>>, <<"xterm-256color">>, <<"xterm-", "kitty">>, <<"xterm-", "ghostty">>,
      <<"xterm-", "sixel">>, <<"xterm-", "kitty", "-", "sixel">>,
      <<"xterm-", "ghostty", "-", "sixel">>, <<"foot-", "kitty", "-", "ghostty">> }
Environs ==
    [TMUX : TmuxValues, STY : StyValues, TERM_PROGRAM : TermProgramValues,
     TERM : TermValues]

\* the window the detection sessions run in
DetectSize == [columns |-> 130, lines |-> 50]

VARIABLES
    images,            \* the candidate list passed to select_images
    environ,           \* os.environ (TMUX, STY, TERM_PROGRAM, TERM)
    viu_on_path,       \* shutil.which("viu") is not None
    viu_extra_lines,   \* lines the installed viu prints beyond the -h it is given
    terminal_size,     \* what os.get_terminal_size() returns in this session
    tty_attrs,         \* the terminal's current attributes
    cursor_visible,    \* terminal cursor visibility
    old_settings,      \* run's saved attributes (Unset before tcgetattr)
    frame,             \* what the last paint put on the screen
    pc,                \* position of the foreground
    current_index,     \* ImageSelector.current_index
    selected_indices,  \* ImageSelector.selected_indices
    _first_render,     \* ImageSelector._first_render
    _image_cache,      \* ImageSelector._image_cache
    fg_call,           \* the foreground's renderer call in flight, or NoCall
    threads,           \* bag of live pre-load threads
    run_result,        \* what run() returns ("pending", "None" or a list)
    exc,               \* exception propagating out of run ("none" if none)
    outcome,           \* how select_images ended
    keys_read,         \* keys read so far
    consumed,          \* bytes of stdin read so far (0 throughout when Interactive)
    key_budget,        \* the number of keys the session's input holds
    printed,           \* messages print()ed for the operator, in order
    watch,             \* history: the cache key the two counters below follow
    hits,              \* history: lookups of watch that found it in the cache
    invoked,           \* history: renderer invocations started for watch
    tainted,           \* history: an invocation for watch failed or overlapped another
    raw_entered,       \* history: tty.setraw was called
    attrs_read,        \* history: termios.tcgetattr was called
    rewritten,         \* history: some key was written to the cache while already present
    preload_stderr,    \* what the pre-load threads' log records have put on sys.stderr
    started,           \* history: the threads the last _trigger_preload started
    char,              \* the key read in this iteration of the loop ("none" once
                       \* its redraw has begun)
    prev_selected,     \* history: selected_indices when that key was read
    stdin,             \* the keys waiting on standard input, or Interactive
    dispatch,          \* the path the last render_with_preview call ran and the
                       \* full_render it handed on
    toggle_origin,     \* history: selected_indices before the Space that has not
                       \* been followed by another key yet, or NoOrigin
    s3_objects,        \* the filenames that exist under the target prefix
    dry_run,           \* args.dry_run
    main_pc,           \* position of main
    head_checked,      \* history: the filenames _key_exists was called for
    duplicates,        \* check_for_duplicates' list of duplicates
    reported,          \* the filenames in the DuplicateFilesError message main prints
    processed_images,  \* the images process_images has optimised
    uploaded_keys,     \* the files upload_images has put in the bucket
    exit_code          \* what main returns (Unset while it runs)

envVars == <<images, environ, viu_on_path, viu_extra_lines, watch, key_budget, stdin>>
sizeVars == <<terminal_size>>
ttyVars == <<tty_attrs, cursor_visible, old_settings, raw_entered, attrs_read>>
selVars == <<current_index, selected_indices>>
cacheVars == <<_image_cache, hits, invoked, tainted, rewritten>>
endVars == <<run_result, exc, outcome, printed>>
keyVars == <<keys_read, consumed>>
logVars == <<preload_stderr>>
histVars == <<char, prev_selected>>
obsVars == <<preload_stderr, started, char, prev_selected, toggle_origin>>
renderVars == <<_first_render, dispatch>>
mainVars == <<s3_objects, dry_run, main_pc, head_checked, duplicates, reported,
              processed_images, uploaded_keys, exit_code>>
vars == <<images, environ, viu_on_path, viu_extra_lines, watch, key_budget, terminal_size, tty_attrs, cursor_visible,
          old_settings, frame, pc, current_index, selected_indices, _first_render,
          _image_cache, fg_call, threads, run_result, exc, outcome, keys_read, consumed,
          printed, hits, invoked, tainted, raw_entered, attrs_read, rewritten,
          preload_stderr, started, char, prev_selected, stdin, dispatch, toggle_origin,
          s3_objects, dry_run, main_pc, head_checked, duplicates, reported,
          processed_images, uploaded_keys, exit_code>>

N == Len(images)
ImageAt(i) == images[i + 1]
NoPanel == [kind |-> "none"]

\* ------------------------------------------------------- selection model
move_up(idx) == IF idx > 0 THEN idx - 1 ELSE idx

\* Down without the boundary test
move_down_unclamped(idx, n) == idx + 1

move_down(idx, n) == IF idx < n - 1 THEN idx + 1 ELSE idx

\* a toggle that can only add
toggle_selection_addOnly(idx, sel) == sel \cup {idx}

toggle_selection(idx, sel) == IF idx \in sel THEN sel \ {idx} ELSE sel \cup {idx}

SetMin(S) == CHOOSE m \in S : \A x \in S : m <= x

RECURSIVE sorted(_)
sorted(S) == IF S = {} THEN <<>> ELSE <<SetMin(S)>> \o sorted(S \ {SetMin(S)})

\* the selection listed in descending index order
get_selected_images_reversed(sel) ==
    [k \in 1..Cardinality(sel) |-> ImageAt(sorted(sel)[Cardinality(sel) + 1 - k])]

get_selected_images(sel) == [k \in 1..Cardinality(sel) |-> ImageAt(sorted(sel)[k])]

\* 'a' that inverts each membership
toggle_select_all_invert(sel, n) == (0..(n - 1)) \ sel

\* 'a' that selects everything only when nothing is selected
toggle_select_all_onlyFromEmpty(sel, n) == IF sel = {} THEN 0..(n - 1) ELSE {}

toggle_select_all(sel, n) == IF Cardinality(sel) = n THEN {} ELSE 0..(n - 1)

\* ------------------------------------------------ external renderer (viu)
\* the argument vector of one viu call: -b given or not, -w, -h, the file
Argv(b, w, h, file) == [b |-> b, w |-> w, h |-> h, file |-> file]
NoArgv == Argv(FALSE, 0, 0, "")
NoCall == [key |-> <<>>, argv |-> NoArgv]

\* what viu writes for a file at a geometry when it exits with status 0:
\* h rows of block glyphs under -b (and viu_extra_lines more, if the installed
\* viu overruns), one protocol blob otherwise
viu_stdout(argv) ==
    IF argv.b
    THEN [kind |-> "lines",
          data |-> [r \in 1..(argv.h + viu_extra_lines) |-> <<argv.file, argv.w, r>>]]
    ELSE [kind |-> "blob", data |-> <<argv.file, argv.w, argv.h>>]

\* what a viu that exits non-zero has written by then: nothing usable
viu_partial(argv) == [kind |-> IF argv.b THEN "lines" ELSE "blob", data |-> <<>>]

\* subprocess.run(..., timeout=5): completes with an exit status, raises
\* TimeoutExpired, or raises OSError when the process cannot be spawned
ViuResults(argv) ==
    { [how |-> "exit", returncode |-> 0, stdout |-> viu_stdout(argv)],
      [how |-> "exit", returncode |-> 1, stdout |-> viu_partial(argv)],
      [how |-> "timeout", returncode |-> 1, stdout |-> viu_partial(argv)],
      [how |-> "spawn_error", returncode |-> 1, stdout |-> viu_partial(argv)] }

\* the status test left out: any completed call counts as a success
Succeeded_anyExit(res) == res.how = "exit"

\* result.returncode == 0, reached only when subprocess.run did not raise
Succeeded(res) == res.how = "exit" /\ res.returncode = 0

\* ------------------------------------------------------------ render cache
cache_key(mode, path, dims) == <<mode, path, dims.width, dims.height>>

\* a cache test that never finds the key
CacheHas_never(cache, key) == FALSE

CacheHas(cache, key) == key \in DOMAIN cache

CachePut(cache, key, value) ==
    [k \in DOMAIN cache \cup {key} |-> IF k = key THEN value ELSE cache[k]]

\* history bookkeeping: count an event on key when key is the watched one
Bump(cnt, key) == IF key = watch /\ cnt < CountCap THEN cnt + 1 ELSE cnt

InFlight(key) ==
    \/ fg_call.key = key
    \/ \E t \in BagToSet(threads) : t.pc = "viu" /\ t.key = key

\* ------------------------------------------------------------- geometry
render_blocks_dims(size) ==
    [width |-> Max2(20, Min2(size.columns - (file_list_width + 5) - 2, 60)),
     height |-> Max2(10, Min2(size.lines - 5, 35))]

render_graphics_dims(size) ==
    [width |-> size.columns - graphics_image_column - 2, height |-> size.lines - 2]

preload_blocks_dims(size) ==
    [width |-> Max2(20, Min2(size.columns - (file_list_width + 5) - 2, 60)),
     height |-> Max2(10, Min2(size.lines - 5, 35))]

\* a pre-loader that leaves out the two-column margin of the graphics path
preload_graphics_dims_noMargin(size) ==
    [width |-> size.columns - graphics_image_column, height |-> size.lines - 2]

preload_graphics_dims(size) ==
    [width |-> size.columns - graphics_image_column - 2, height |-> size.lines - 2]

\* the dispatcher's and the pre-loader's choice of path
render_mode(protocol) ==
    IF protocol \in {"iterm", "kitty", "sixel"} THEN "graphics" ELSE "blocks"

preload_mode(protocol) ==
    IF protocol \in {"iterm", "kitty", "ghostty", "sixel"} THEN "graphics" ELSE "blocks"

\* what the graphics path is called with: it takes no argument
NoArg == "<no argument>"
\* before the first render_with_preview call
NoDispatch == [path |-> "none", full_render |-> NoArg]

\* the full_render run passes: both calls use the parameter's default
default_full_render == TRUE

\* a dispatcher that lets full_render = False fall back to the block path
render_with_preview_hintPicksPath(protocol, full_render) ==
    IF render_mode(protocol) = "graphics" /\ full_render
    THEN [path |-> "graphics", full_render |-> NoArg]
    ELSE [path |-> "blocks", full_render |-> full_render]

\* render_with_preview: the path called for protocol and the argument it gets
render_with_preview(protocol, full_render) ==
    IF render_mode(protocol) = "graphics"
    THEN [path |-> "graphics", full_render |-> NoArg]
    ELSE [path |-> "blocks", full_render |-> full_render]

\* a block path that clears the whole screen on every frame
blocks_clear_everyFrame(first_render, full_render) == TRUE

\* render_with_blocks: '\033[2J\033[H' is written when _first_render is set,
\* '\033[H' alone otherwise; full_render is not read
blocks_clear(first_render, full_render) == first_render

\* render_with_graphics_protocol: the same test of _first_render
graphics_clear(first_render) == first_render

\* key and argument vector the compositor uses for the image at the cursor
render_plan(mode, path, size) ==
    IF mode = "graphics"
    THEN [key |-> cache_key("graphics", path, render_graphics_dims(size)),
          argv |-> Argv(FALSE, render_graphics_dims(size).width,
                        render_graphics_dims(size).height, path)]
    ELSE [key |-> cache_key("blocks", path, render_blocks_dims(size)),
          argv |-> Argv(TRUE, render_blocks_dims(size).width,
                        render_blocks_dims(size).height, path)]

\* a pre-loader that hands viu the width and height the wrong way round
preload_plan_swapped(mode, path, size) ==
    IF mode = "graphics"
    THEN [key |-> cache_key("graphics", path, preload_graphics_dims(size)),
          argv |-> Argv(FALSE, preload_graphics_dims(size).height,
                        preload_graphics_dims(size).width, path)]
    ELSE [key |-> cache_key("blocks", path, preload_blocks_dims(size)),
          argv |-> Argv(TRUE, preload_blocks_dims(size).height,
                        preload_blocks_dims(size).width, path)]

\* key and argument vector a pre-load thread uses for images[index]
preload_plan(mode, path, size) ==
    IF mode = "graphics"
    THEN [key |-> cache_key("graphics", path, preload_graphics_dims(size)),
          argv |-> Argv(FALSE, preload_graphics_dims(size).width,
                        preload_graphics_dims(size).height, path)]
    ELSE [key |-> cache_key("blocks", path, preload_blocks_dims(size)),
          argv |-> Argv(TRUE, preload_blocks_dims(size).width,
                        preload_blocks_dims(size).height, path)]

\* ------------------------------------------------------------ pre-loading
StartThread(index) == [pc |-> "start", index |-> index, key |-> <<>>, argv |-> NoArgv]

\* _trigger_preload without its two bounds tests
trigger_preload_noBounds(idx, n) ==
    SetToBag({StartThread(idx + 1)}) (+) SetToBag({StartThread(idx - 1)})

\* the threads _trigger_preload starts with the cursor at idx
trigger_preload(idx, n) ==
    (IF idx + 1 < n THEN SetToBag({StartThread(idx + 1)}) ELSE EmptyBag)
    (+) (IF idx - 1 >= 0 THEN SetToBag({StartThread(idx - 1)}) ELSE EmptyBag)

\* a pool that makes the caller wait until it has room for the new threads
Spawn_blocksWhenBusy(new) ==
    /\ BagCardinality(threads) + BagCardinality(new) <= MaxThreads
    /\ started' = new
    /\ threads' = threads (+) new

\* _trigger_preload: Thread(...).start() for each member of new, without
\* waiting. The model follows at most MaxThreads live threads; a started
\* thread it does not follow is one the scheduler never runs again.
Spawn(new) ==
    /\ started' = new
    /\ \E keep \in SUBSET BagToSet(new) :
          /\ Cardinality(keep) = Min2(BagCardinality(new),
                                      MaxThreads - BagCardinality(threads))
          /\ threads' = threads (+) SetToBag(keep)

\* a pre-loader that starts viu without testing the cache
PreloadLookup_noCacheTest(t) ==
    /\ BagIn(t, threads) /\ t.pc = "start"
    /\ t.index >= 0 /\ t.index < N
    /\ LET plan == preload_plan(preload_mode(detect_graphics_protocol(environ)),
                                ImageAt(t.index), terminal_size)
       IN /\ threads' = (threads (-) SetToBag({t}))
                         (+) SetToBag({[pc |-> "viu", index |-> t.index,
                                        key |-> plan.key, argv |-> plan.argv]})
          /\ invoked' = Bump(invoked, plan.key)
          /\ tainted' = (tainted \/ (plan.key = watch /\ InFlight(plan.key)))
    /\ UNCHANGED <<envVars, mainVars, sizeVars, ttyVars, frame, pc, selVars, renderVars,
                   _image_cache, hits, rewritten, fg_call, endVars, keyVars>>
    /\ UNCHANGED obsVars

\* _preload_image up to the cache test: a hit (or an index out of bounds)
\* ends the thread, a miss starts viu
PreloadLookup(t) ==
    /\ BagIn(t, threads) /\ t.pc = "start"
    /\ LET mode == preload_mode(detect_graphics_protocol(environ))
           plan == IF t.index < 0 \/ t.index >= N THEN [key |-> <<>>, argv |-> NoArgv]
                   ELSE preload_plan(mode, ImageAt(t.index), terminal_size)
       IN IF t.index < 0 \/ t.index >= N \/ CacheHas(_image_cache, plan.key)
          THEN /\ threads' = threads (-) SetToBag({t})
               /\ hits' = Bump(hits, plan.key)
               /\ UNCHANGED <<invoked, tainted>>
          ELSE /\ threads' = (threads (-) SetToBag({t}))
                             (+) SetToBag({[pc |-> "viu", index |-> t.index,
                                            key |-> plan.key, argv |-> plan.argv]})
               /\ invoked' = Bump(invoked, plan.key)
               /\ tainted' = (tainted \/ (plan.key = watch /\ InFlight(plan.key)))
               /\ UNCHANGED hits
    /\ UNCHANGED <<envVars, mainVars, sizeVars, ttyVars, frame, pc, selVars, renderVars,
                   _image_cache, rewritten, fg_call, endVars, keyVars>>
    /\ UNCHANGED obsVars

\* the record logger.error emits in `except Exception` of _preload_image,
\* which the logging set-up of __main__ hands to a handler writing to
\* sys.stderr; a non-zero exit raises nothing and logs nothing
preload_log(res) == IF res.how = "exit" THEN {} ELSE {"Pre-load failed"}

\* _preload_image after viu: only a status-0 result is stored; a call that
\* raised is logged, and no failure changes the cache
PreloadComplete(t) ==
    /\ BagIn(t, threads) /\ t.pc = "viu"
    /\ \E res \in ViuResults(t.argv) :
          IF Succeeded(res)
          THEN /\ _image_cache' = CachePut(_image_cache, t.key, res.stdout)
               /\ rewritten' = (rewritten \/ CacheHas(_image_cache, t.key))
               /\ UNCHANGED <<tainted, preload_stderr>>
          ELSE /\ tainted' = (tainted \/ t.key = watch)
               /\ preload_stderr' = preload_stderr \cup preload_log(res)
               /\ UNCHANGED <<_image_cache, rewritten>>
    /\ threads' = threads (-) SetToBag({t})
    /\ UNCHANGED <<envVars, mainVars, sizeVars, ttyVars, frame, pc, selVars, renderVars,
                   hits, invoked, fg_call, endVars, keyVars>>
    /\ UNCHANGED <<started, histVars, toggle_origin>>

\* --------------------------------------------------------- select_images
NoOutcome == [kind |-> "pending", code |-> 0, paths |-> <<>>]
Exit(code) == [kind |-> "exit", code |-> code, paths |-> <<>>]
Returned(paths) == [kind |-> "returned", code |-> 0, paths |-> paths]
Raised == [kind |-> "raised", code |-> 0, paths |-> <<>>]

\* the key the history follows: that of the image the session opens on, which
\* the compositor looks up first and the pre-load threads look up after Down
WatchKeys(imgs, env, size) ==
    IF imgs = <<>> THEN {<<>>}
    ELSE { render_plan(render_mode(detect_graphics_protocol(env)), imgs[1], size).key }

\* standard input is a terminal: any key may come next
Interactive == <<"<interactive>">>
\* no Space is waiting to be undone by a second one
NoOrigin == [set |-> FALSE, selected |-> {}]
Origin(sel) == [set |-> TRUE, selected |-> sel]

\* the value run() returns: None, or the list of selected paths
NoResult == [kind |-> "pending", paths |-> <<>>]
ReturnNone == [kind |-> "None", paths |-> <<>>]
ReturnList(paths) == [kind |-> "list", paths |-> paths]

\* the state when select_images is called: nothing has run yet
InitSession(imageCounts, maxKeys, keys, sessions, overruns) ==
    /\ \E n \in imageCounts : images = [i \in 1..n |-> PathNames[i]]
    /\ viu_extra_lines \in overruns
    /\ stdin = keys
    /\ key_budget = maxKeys
    /\ \E s \in sessions : environ = s.env /\ terminal_size = s.size
    /\ viu_on_path \in BOOLEAN
    /\ tty_attrs = CookedMode
    /\ cursor_visible = TRUE
    /\ old_settings = Unset
    /\ frame = [clear |-> FALSE, panel |-> NoPanel, rows |-> <<>>]
    /\ pc = "select_images"
    /\ current_index = 0
    /\ selected_indices = {}
    /\ _first_render = TRUE
    /\ _image_cache = [k \in {} |-> NoPanel]
    /\ fg_call = NoCall
    /\ threads = EmptyBag
    /\ run_result = NoResult
    /\ exc = "none"
    /\ outcome = NoOutcome
    /\ keys_read = 0
    /\ consumed = 0
    /\ printed = <<>>
    /\ watch \in WatchKeys(images, environ, terminal_size)
    /\ hits = 0
    /\ invoked = 0
    /\ tainted = FALSE
    /\ raw_entered = FALSE
    /\ attrs_read = FALSE
    /\ rewritten = FALSE
    /\ preload_stderr = {}
    /\ started = EmptyBag
    /\ char = "none"
    /\ prev_selected = {}
    /\ dispatch = NoDispatch
    /\ toggle_origin = NoOrigin
    /\ main_pc = "select_images"
    /\ head_checked = {}
    /\ duplicates = <<>>
    /\ reported = <<>>
    /\ processed_images = <<>>
    /\ uploaded_keys = <<>>
    /\ exit_code = Unset

\* the same with a viu that prints exactly the -h lines it is asked for
InitWith(imageCounts, maxKeys, keys, sessions) ==
    /\ InitSession(imageCounts, maxKeys, keys, sessions, {0})
    /\ s3_objects = {}
    /\ dry_run = FALSE

Init == InitWith(0..MaxImages, MaxKeys, Interactive, Sessions)

\* the same, for the sessions whose pre-load threads are never scheduled
InitLoop == InitWith(0..MaxLoopImages, MaxLoopKeys, Interactive, Sessions)

\* sessions in every environment of Environs
InitDetect ==
    InitWith(1..MaxDetectImages, MaxDetectKeys, Interactive,
             {[env |-> e, size |-> DetectSize] : e \in Environs})

\* the bytes the loop tells apart, and what read(1) returns at end of input
ESC == "<ESC>"
CR == "<CR>"
LF == "<LF>"
ETX == "<ETX>"
EOF == ""

\* the elif chain on a first byte that is not ESC
byte_key(c) ==
    IF c = " " THEN "Space"
    ELSE IF c \in {CR, LF} THEN "Enter"
    ELSE IF c \in {"y", "Y"} THEN "y"
    ELSE IF c \in {"a", "A"} THEN "a"
    ELSE IF c \in {"q", "Q"} THEN "q"
    ELSE IF c = ETX THEN "Ctrl+C"
    ELSE "other"

\* sys.stdin.read(1) at offset i of bytes: the byte, or '' past the end
ByteAt(bytes, i) == IF i <= Len(bytes) THEN bytes[i] ELSE EOF

\* a loop that takes ESC as a key of its own, without reading ahead
decode_noLookahead(bytes, pos) ==
    IF ByteAt(bytes, pos + 1) = EOF THEN [key |-> "EOF", len |-> 0]
    ELSE IF ByteAt(bytes, pos + 1) = ESC THEN [key |-> "Escape", len |-> 1]
    ELSE [key |-> byte_key(ByteAt(bytes, pos + 1)), len |-> 1]

\* one iteration's reads from offset pos: the key they amount to and the
\* number of bytes they take (ESC reads one byte more, ESC [ two more)
decode(bytes, pos) ==
    IF ByteAt(bytes, pos + 1) = EOF THEN [key |-> "EOF", len |-> 0]
    ELSE IF ByteAt(bytes, pos + 1) = ESC
    THEN IF ByteAt(bytes, pos + 2) = "["
         THEN [key |-> IF ByteAt(bytes, pos + 3) = "A" THEN "Up"
                       ELSE IF ByteAt(bytes, pos + 3) = "B" THEN "Down"
                       ELSE "other",
               len |-> Min2(3, Len(bytes) - pos)]
         ELSE [key |-> "Escape", len |-> Min2(2, Len(bytes) - pos)]
    ELSE [key |-> byte_key(ByteAt(bytes, pos + 1)), len |-> 1]

\* the session of three candidates in which the operator types Script:
\* Down, Down, Space, a, Enter
Script == <<ESC, "[", "B", ESC, "[", "B", " ", "a", CR>>
ScriptKeys == 5
InitScript == InitWith({3}, ScriptKeys, Script, Sessions)

\* select_images without the validation of its input
SelectImages_noValidation ==
    /\ pc = "select_images"
    /\ pc' = "run"
    /\ UNCHANGED <<envVars, mainVars, sizeVars, ttyVars, frame, selVars, renderVars, cacheVars,
                   fg_call, threads, endVars, keyVars>>
    /\ UNCHANGED obsVars

\* select_images entry: an empty list is refused before a selector exists
SelectImages ==
    /\ pc = "select_images"
    /\ IF images = <<>>
       THEN /\ printed' = Append(printed, "Error: No images provided for selection")
            /\ outcome' = Exit(1)
            /\ pc' = "done"
       ELSE /\ pc' = "run"
            /\ UNCHANGED <<printed, outcome>>
    /\ UNCHANGED <<envVars, mainVars, sizeVars, ttyVars, frame, selVars, renderVars, cacheVars,
                   fg_call, threads, run_result, exc, keyVars>>
    /\ UNCHANGED obsVars

\* ------------------------------------------------------ ImageSelector.run
\* run without the availability check
CheckViu_skipped ==
    /\ pc = "run"
    /\ pc' = "tcgetattr"
    /\ UNCHANGED <<envVars, mainVars, sizeVars, ttyVars, frame, selVars, renderVars, cacheVars,
                   fg_call, threads, endVars, keyVars>>
    /\ UNCHANGED obsVars

\* run: check_viu_availability, else fail_viu_not_found (prints, SystemExit(1))
CheckViu ==
    /\ pc = "run"
    /\ IF viu_on_path
       THEN /\ pc' = "tcgetattr"
            /\ UNCHANGED <<printed, exc>>
       ELSE /\ printed' = printed \o <<"Error: viu is not installed",
                                       "Installation instructions: brew install viu / cargo install viu">>
            /\ exc' = "SystemExit"
            /\ pc' = "run_exit"
    /\ UNCHANGED <<envVars, mainVars, sizeVars, ttyVars, frame, selVars, renderVars, cacheVars,
                   fg_call, threads, run_result, outcome, keyVars>>
    /\ UNCHANGED obsVars

\* old_settings = termios.tcgetattr(fd)
TcGetAttr ==
    /\ pc = "tcgetattr"
    /\ old_settings' = tty_attrs
    /\ attrs_read' = TRUE
    /\ pc' = "setraw"
    /\ UNCHANGED <<envVars, mainVars, sizeVars, tty_attrs, cursor_visible, raw_entered, frame, selVars,
                   renderVars, cacheVars, fg_call, threads, endVars, keyVars>>
    /\ UNCHANGED obsVars

\* tty.setraw(fd), first statement of the try block
SetRaw ==
    /\ pc = "setraw"
    /\ tty_attrs' = "raw"
    /\ raw_entered' = TRUE
    /\ pc' = "hide_cursor"
    /\ UNCHANGED <<envVars, mainVars, sizeVars, cursor_visible, old_settings, attrs_read, frame, selVars,
                   renderVars, cacheVars, fg_call, threads, endVars, keyVars>>
    /\ UNCHANGED obsVars

\* sys.stdout.write('\033[?25l')
HideCursor ==
    /\ pc = "hide_cursor"
    /\ cursor_visible' = FALSE
    /\ pc' = "render"
    /\ UNCHANGED <<envVars, mainVars, sizeVars, tty_attrs, old_settings, raw_entered, attrs_read, frame,
                   selVars, renderVars, cacheVars, fg_call, threads, endVars, keyVars>>
    /\ UNCHANGED obsVars

\* ------------------------------------------------------------ compositor
EmptyLines == [kind |-> "lines", data |-> <<>>]
Diagnostic(text) == [kind |-> "text", data |-> <<text>>]

\* what render_with_blocks puts in the image column after a failed call:
\* an exception gives one line of error text, a non-zero exit leaves viu_lines = []
blocks_failure_panel(res) ==
    IF res.how = "exit" THEN EmptyLines
    ELSE [kind |-> "lines", data |-> <<"[Preview error: " \o res.how \o "]">>]

\* what render_with_graphics_protocol writes after a failed call
graphics_failure_panel(res) ==
    IF res.how = "exit" THEN Diagnostic("[Preview error: stderr]")
    ELSE IF res.how = "timeout" THEN Diagnostic("[Preview timed out]")
    ELSE Diagnostic("[Preview error: " \o res.how \o "]")

\* what a row of the image column shows when it is not a line of an image
ErrorRow == "[Preview error]"

\* the rows a panel occupies, each tagged with what it shows: the image the
\* lines belong to, or the error text
panel_rows(panel, image) ==
    IF panel.kind = "lines" THEN [r \in 1..Len(panel.data) |-> image]
    ELSE IF panel.kind = "blob" THEN <<image>>
    ELSE IF panel.kind = "text" THEN <<ErrorRow>>
    ELSE <<>>

\* the image column once the frame's clearing sequences are written: the
\* graphics path erases the screen on every frame ('\033[J' after home), the
\* block path only when it writes '\033[2J'
erase_rows(path, clear, old) == IF path = "graphics" \/ clear THEN <<>> ELSE old

\* the painting loop: row r is overwritten when the panel has a line for it
\* and is left as it was otherwise
paint_rows(new, old) ==
    [r \in 1..Max2(Len(new), Len(old)) |-> IF r <= Len(new) THEN new[r] ELSE old[r]]

\* render_with_preview up to the cache test of the chosen path: a hit paints
\* the stored value and starts the pre-loads; a miss starts viu and waits
RenderLookup ==
    /\ pc = "render"
    /\ LET mode == render_with_preview(detect_graphics_protocol(environ),
                                       default_full_render).path
           plan == render_plan(mode, ImageAt(current_index), terminal_size)
           call == render_with_preview(detect_graphics_protocol(environ), default_full_render)
           clear == IF call.path = "blocks"
                    THEN blocks_clear(_first_render, call.full_render)
                    ELSE graphics_clear(_first_render)
       IN /\ dispatch' = call
          /\ _first_render' = FALSE
          /\ IF CacheHas(_image_cache, plan.key)
             THEN /\ frame' = [clear |-> clear, panel |-> _image_cache[plan.key],
                               rows |-> paint_rows(panel_rows(_image_cache[plan.key],
                                                              ImageAt(current_index)),
                                                   erase_rows(call.path, clear, frame.rows))]
                  /\ Spawn(trigger_preload(current_index, N))
                  /\ pc' = "read_key"
                  /\ hits' = Bump(hits, plan.key)
                  /\ UNCHANGED <<fg_call, invoked, tainted>>
             ELSE IF mode = "blocks" /\ ~viu_on_path
             THEN /\ frame' = [clear |-> clear, panel |-> EmptyLines,
                               rows |-> erase_rows(call.path, clear, frame.rows)]
                  /\ Spawn(trigger_preload(current_index, N))
                  /\ pc' = "read_key"
                  /\ UNCHANGED <<fg_call, hits, invoked, tainted>>
             ELSE /\ fg_call' = plan
                  /\ invoked' = Bump(invoked, plan.key)
                  /\ tainted' = (tainted \/ (plan.key = watch /\ InFlight(plan.key)))
                  /\ frame' = [frame EXCEPT !.clear = clear,
                                            !.rows = erase_rows(call.path, clear, frame.rows)]
                  /\ pc' = "viu_wait"
                  /\ UNCHANGED <<threads, started, hits>>
    /\ char' = "none"
    /\ prev_selected' = {}
    /\ UNCHANGED <<envVars, mainVars, sizeVars, ttyVars, selVars, _image_cache, rewritten, endVars,
                   keyVars, logVars, toggle_origin>>

\* a compositor that lets a failed call's exception escape
RenderComplete_raisesOnFailure ==
    /\ pc = "viu_wait"
    /\ \E res \in ViuResults(fg_call.argv) :
          IF Succeeded(res)
          THEN /\ _image_cache' = CachePut(_image_cache, fg_call.key, res.stdout)
               /\ rewritten' = (rewritten \/ CacheHas(_image_cache, fg_call.key))
               /\ frame' = [frame EXCEPT !.panel = res.stdout,
                                         !.rows = paint_rows(panel_rows(res.stdout, fg_call.argv.file),
                                                             frame.rows)]
               /\ Spawn(trigger_preload(current_index, N))
               /\ pc' = "read_key"
               /\ UNCHANGED <<tainted, exc>>
          ELSE /\ exc' = "CalledProcessError"
               /\ pc' = "finally"
               /\ tainted' = (tainted \/ fg_call.key = watch)
               /\ UNCHANGED <<_image_cache, rewritten, frame, threads, started>>
    /\ fg_call' = NoCall
    /\ UNCHANGED <<envVars, mainVars, sizeVars, ttyVars, selVars, renderVars, hits, invoked,
                   run_result, outcome, printed, keyVars, logVars, histVars, toggle_origin>>

\* a compositor that calls viu without timeout=5: a viu that does not end on
\* its own is waited for without end
RenderComplete_noTimeout ==
    /\ pc = "viu_wait"
    /\ \E res \in ViuResults(fg_call.argv) :
          IF res.how = "timeout"
          THEN /\ pc' = "viu_hung"
               /\ UNCHANGED <<frame, cacheVars, fg_call, threads, started>>
          ELSE /\ IF Succeeded(res)
                  THEN /\ _image_cache' = CachePut(_image_cache, fg_call.key, res.stdout)
                       /\ rewritten' = (rewritten \/ CacheHas(_image_cache, fg_call.key))
                       /\ frame' = [frame EXCEPT !.panel = res.stdout,
                                                 !.rows = paint_rows(panel_rows(res.stdout,
                                                                                fg_call.argv.file),
                                                                     frame.rows)]
                       /\ UNCHANGED tainted
                  ELSE /\ frame' = [frame EXCEPT !.panel = IF fg_call.argv.b
                                                           THEN blocks_failure_panel(res)
                                                           ELSE graphics_failure_panel(res)]
                       /\ tainted' = (tainted \/ fg_call.key = watch)
                       /\ UNCHANGED <<_image_cache, rewritten>>
               /\ UNCHANGED <<hits, invoked>>
               /\ fg_call' = NoCall
               /\ Spawn(trigger_preload(current_index, N))
               /\ pc' = "read_key"
    /\ UNCHANGED <<envVars, mainVars, sizeVars, ttyVars, selVars, renderVars,
                   endVars, keyVars, logVars, histVars, toggle_origin>>

\* the rest of the chosen path once subprocess.run has returned or raised:
\* a status-0 result is cached and painted, a failure is painted only
RenderComplete ==
    /\ pc = "viu_wait"
    /\ \E res \in ViuResults(fg_call.argv) :
          /\ IF Succeeded(res)
             THEN /\ _image_cache' = CachePut(_image_cache, fg_call.key, res.stdout)
                  /\ rewritten' = (rewritten \/ CacheHas(_image_cache, fg_call.key))
                  /\ frame' = [frame EXCEPT !.panel = res.stdout,
                                            !.rows = paint_rows(panel_rows(res.stdout,
                                                                           fg_call.argv.file),
                                                                frame.rows)]
                  /\ UNCHANGED tainted
             ELSE /\ frame' = [frame EXCEPT !.panel = IF fg_call.argv.b
                                                      THEN blocks_failure_panel(res)
                                                      ELSE graphics_failure_panel(res),
                                            !.rows = paint_rows(
                                                IF fg_call.argv.b
                                                THEN panel_rows(blocks_failure_panel(res), ErrorRow)
                                                ELSE panel_rows(graphics_failure_panel(res), ErrorRow),
                                                frame.rows)]
                  /\ tainted' = (tainted \/ fg_call.key = watch)
                  /\ UNCHANGED <<_image_cache, rewritten>>
    /\ fg_call' = NoCall
    /\ Spawn(trigger_preload(current_index, N))
    /\ pc' = "read_key"
    /\ UNCHANGED <<envVars, mainVars, sizeVars, ttyVars, selVars, renderVars, hits, invoked,
                   endVars, keyVars, logVars, histVars, toggle_origin>>

\* an exception outside the compositor's own try blocks (os.get_terminal_size
\* raising OSError, the panel failing to encode) leaves render_with_preview
RenderRaises ==
    /\ pc = "render"
    /\ exc' = "OSError"
    /\ pc' = "finally"
    /\ UNCHANGED <<envVars, mainVars, sizeVars, ttyVars, frame, selVars, renderVars, cacheVars,
                   fg_call, threads, run_result, outcome, printed, keyVars>>
    /\ UNCHANGED obsVars

\* -------------------------------------------------------------- input loop
\* char = sys.stdin.read(1) returns a byte (the look-ahead reads after ESC
\* belong to the same iteration)
ReadKey ==
    /\ pc = "read_key"
    /\ keys_read < key_budget
    /\ keys_read' = keys_read + 1

\* the loop has read and decoded key
Pressed(key) ==
    /\ ReadKey
    /\ IF stdin = Interactive
       THEN consumed' = consumed
       ELSE /\ decode(stdin, consumed).key = key
            /\ consumed' = consumed + decode(stdin, consumed).len
    /\ char' = key
    /\ prev_selected' = selected_indices
    /\ toggle_origin' = IF key = "Space" /\ ~toggle_origin.set
                        THEN Origin(selected_indices) ELSE NoOrigin

Frame0 == <<envVars, mainVars, sizeVars, ttyVars, frame, renderVars, cacheVars, fg_call, threads,
            started>>

\* Up that starts a fresh selection
KeyUp_dropsSelection ==
    /\ Pressed("Up")
    /\ current_index' = move_up(current_index)
    /\ selected_indices' = {}
    /\ pc' = "render"
    /\ UNCHANGED <<Frame0, endVars>>
    /\ UNCHANGED logVars

\* ESC [ A
KeyUp ==
    /\ Pressed("Up")
    /\ current_index' = move_up(current_index)
    /\ pc' = "render"
    /\ UNCHANGED <<Frame0, selected_indices, endVars>>
    /\ UNCHANGED logVars

\* ESC [ B
KeyDown ==
    /\ Pressed("Down")
    /\ current_index' = move_down(current_index, N)
    /\ pc' = "render"
    /\ UNCHANGED <<Frame0, selected_indices, endVars>>
    /\ UNCHANGED logVars

\* ESC followed by anything but '[': return None
KeyEscape ==
    /\ Pressed("Escape")
    /\ run_result' = ReturnNone
    /\ pc' = "finally"
    /\ UNCHANGED <<Frame0, selVars, exc, outcome, printed>>
    /\ UNCHANGED logVars

\* Space that goes back to reading keys without the redraw
KeySpace_skipsRedraw ==
    /\ Pressed("Space")
    /\ selected_indices' = toggle_selection(current_index, selected_indices)
    /\ pc' = "read_key"
    /\ UNCHANGED <<Frame0, current_index, endVars>>
    /\ UNCHANGED logVars

\* ' '
KeySpace ==
    /\ Pressed("Space")
    /\ selected_indices' = toggle_selection(current_index, selected_indices)
    /\ pc' = "render"
    /\ UNCHANGED <<Frame0, current_index, endVars>>
    /\ UNCHANGED logVars

\* Enter without the test for an empty selection
KeyEnter_returnsEmpty ==
    /\ Pressed("Enter")
    /\ run_result' = ReturnList(get_selected_images(selected_indices))
    /\ pc' = "finally"
    /\ UNCHANGED <<Frame0, selVars, exc, outcome, printed>>
    /\ UNCHANGED logVars

\* Enter that gives up when nothing is selected
KeyEnter_cancelsWhenEmpty ==
    /\ Pressed("Enter")
    /\ run_result' = IF get_selected_images(selected_indices) = <<>> THEN ReturnNone
                     ELSE ReturnList(get_selected_images(selected_indices))
    /\ pc' = "finally"
    /\ UNCHANGED <<Frame0, selVars, exc, outcome, printed>>
    /\ UNCHANGED logVars

\* '\r' or '\n': return the selection, or `continue` when it is empty
KeyEnter ==
    /\ Pressed("Enter")
    /\ IF get_selected_images(selected_indices) = <<>>
       THEN /\ pc' = "read_key"
            /\ UNCHANGED run_result
       ELSE /\ run_result' = ReturnList(get_selected_images(selected_indices))
            /\ pc' = "finally"
    /\ UNCHANGED logVars
    /\ UNCHANGED <<Frame0, selVars, exc, outcome, printed>>

\* 'y' that adds the current image to the selection and returns all of it
KeyY_keepsSelection ==
    /\ Pressed("y")
    /\ selected_indices' = selected_indices \cup {current_index}
    /\ run_result' = ReturnList(get_selected_images(selected_indices \cup {current_index}))
    /\ pc' = "finally"
    /\ UNCHANGED <<Frame0, current_index, exc, outcome, printed>>
    /\ UNCHANGED logVars

\* 'y' or 'Y': select only the current image and return at once
KeyY ==
    /\ Pressed("y")
    /\ selected_indices' = {current_index}
    /\ run_result' = ReturnList(get_selected_images({current_index}))
    /\ pc' = "finally"
    /\ UNCHANGED <<Frame0, current_index, exc, outcome, printed>>
    /\ UNCHANGED logVars

\* 'a' or 'A'
KeyA ==
    /\ Pressed("a")
    /\ selected_indices' = toggle_select_all(selected_indices, N)
    /\ pc' = "render"
    /\ UNCHANGED <<Frame0, current_index, endVars>>
    /\ UNCHANGED logVars

\* 'q' that returns what is selected, as Enter does
KeyQ_returnsSelection ==
    /\ Pressed("q")
    /\ run_result' = IF selected_indices = {} THEN ReturnNone
                     ELSE ReturnList(get_selected_images(selected_indices))
    /\ pc' = "finally"
    /\ UNCHANGED <<Frame0, selVars, exc, outcome, printed>>
    /\ UNCHANGED logVars

\* 'q' or 'Q'
KeyQ ==
    /\ Pressed("q")
    /\ run_result' = ReturnNone
    /\ pc' = "finally"
    /\ UNCHANGED <<Frame0, selVars, exc, outcome, printed>>
    /\ UNCHANGED logVars

\* '\x03': raise KeyboardInterrupt
KeyCtrlC ==
    /\ Pressed("Ctrl+C")
    /\ exc' = "KeyboardInterrupt"
    /\ pc' = "finally"
    /\ UNCHANGED <<Frame0, selVars, run_result, outcome, printed>>
    /\ UNCHANGED logVars

\* any other byte, or ESC [ followed by a byte other than A or B: no branch
\* matches and the loop goes on to the redraw
KeyOther ==
    /\ Pressed("other")
    /\ pc' = "render"
    /\ UNCHANGED <<Frame0, selVars, endVars>>
    /\ UNCHANGED logVars

\* sys.stdin.read(1) returns '' at end of input: no key is read, no branch
\* matches and the loop goes on to the redraw
KeyEof ==
    /\ pc = "read_key"
    /\ stdin # Interactive
    /\ decode(stdin, consumed).key = "EOF"
    /\ char' = "EOF"
    /\ prev_selected' = selected_indices
    /\ toggle_origin' = NoOrigin
    /\ pc' = "render"
    /\ UNCHANGED <<Frame0, selVars, endVars, keyVars>>
    /\ UNCHANGED logVars

\* a block that shows the cursor and clears the screen but leaves raw mode on
Finally_keepsRaw ==
    /\ pc = "finally"
    /\ cursor_visible' = TRUE
    /\ frame' = [clear |-> TRUE, panel |-> NoPanel, rows |-> <<>>]
    /\ pc' = "run_exit"
    /\ UNCHANGED <<envVars, mainVars, sizeVars, tty_attrs, old_settings, raw_entered, attrs_read,
                   selVars, renderVars, cacheVars, fg_call, threads, endVars, keyVars>>
    /\ UNCHANGED obsVars

\* a finally block that first waits for the pre-load threads to end
Finally_joinsThreads ==
    /\ pc = "finally"
    /\ threads = EmptyBag
    /\ cursor_visible' = TRUE
    /\ frame' = [clear |-> TRUE, panel |-> NoPanel, rows |-> <<>>]
    /\ tty_attrs' = old_settings
    /\ pc' = "run_exit"
    /\ UNCHANGED <<envVars, mainVars, sizeVars, old_settings, raw_entered, attrs_read, selVars,
                   renderVars, cacheVars, fg_call, threads, endVars, keyVars>>
    /\ UNCHANGED obsVars

\* the finally block of run: show the cursor, clear the screen, restore the
\* attributes saved at entry
Finally ==
    /\ pc = "finally"
    /\ cursor_visible' = TRUE
    /\ frame' = [clear |-> TRUE, panel |-> NoPanel, rows |-> <<>>]
    /\ tty_attrs' = old_settings
    /\ pc' = "run_exit"
    /\ UNCHANGED <<envVars, mainVars, sizeVars, old_settings, raw_entered, attrs_read, selVars,
                   renderVars, cacheVars, fg_call, threads, endVars, keyVars>>
    /\ UNCHANGED obsVars

\* select_images without its `except KeyboardInterrupt`
SelectImagesExit_noInterruptHandler ==
    /\ pc = "run_exit"
    /\ IF exc = "SystemExit"
       THEN /\ outcome' = Exit(1)
            /\ UNCHANGED printed
       ELSE IF exc # "none"
       THEN /\ outcome' = Raised
            /\ UNCHANGED printed
       ELSE IF run_result.kind = "None" \/ run_result.paths = <<>>
       THEN /\ printed' = Append(printed, "No images selected")
            /\ outcome' = Exit(1)
       ELSE /\ outcome' = Returned(run_result.paths)
            /\ UNCHANGED printed
    /\ pc' = "done"
    /\ UNCHANGED <<envVars, mainVars, sizeVars, ttyVars, frame, selVars, renderVars, cacheVars,
                   fg_call, threads, run_result, exc, keyVars>>
    /\ UNCHANGED obsVars

\* select_images after selector.run(): KeyboardInterrupt and a None or empty
\* result become SystemExit(1); any other exception propagates
SelectImagesExit ==
    /\ pc = "run_exit"
    /\ IF exc = "KeyboardInterrupt"
       THEN /\ printed' = Append(printed, "Cancelled by user")
            /\ outcome' = Exit(1)
       ELSE IF exc = "SystemExit"
       THEN /\ outcome' = Exit(1)
            /\ UNCHANGED printed
       ELSE IF exc # "none"
       THEN /\ outcome' = Raised
            /\ UNCHANGED printed
       ELSE IF run_result.kind = "None" \/ run_result.paths = <<>>
       THEN /\ printed' = Append(printed, "No images selected")
            /\ outcome' = Exit(1)
       ELSE /\ outcome' = Returned(run_result.paths)
            /\ UNCHANGED printed
    /\ pc' = "done"
    /\ UNCHANGED <<envVars, mainVars, sizeVars, ttyVars, frame, selVars, renderVars, cacheVars,
                   fg_call, threads, run_result, exc, keyVars>>
    /\ UNCHANGED obsVars

Next ==
    \/ SelectImages
    \/ CheckViu
    \/ TcGetAttr
    \/ SetRaw
    \/ HideCursor
    \/ RenderLookup
    \/ RenderComplete
    \/ RenderRaises
    \/ KeyUp
    \/ KeyDown
    \/ KeyEscape
    \/ KeySpace
    \/ KeyEnter
    \/ KeyY
    \/ KeyA
    \/ KeyQ
    \/ KeyCtrlC
    \/ KeyOther
    \/ Finally
    \/ SelectImagesExit
    \/ \E t \in BagToSet(threads) : PreloadLookup(t)
    \/ \E t \in BagToSet(threads) : PreloadComplete(t)

Spec == Init /\ [][Next]_vars

\* the foreground alone: daemon threads are started and never joined, so a
\* session in which none of them is scheduled before it ends is one the
\* program can have
NextLoop ==
    \/ SelectImages
    \/ CheckViu
    \/ TcGetAttr
    \/ SetRaw
    \/ HideCursor
    \/ RenderLookup
    \/ RenderComplete
    \/ RenderRaises
    \/ KeyUp
    \/ KeyDown
    \/ KeyEscape
    \/ KeySpace
    \/ KeyEnter
    \/ KeyY
    \/ KeyA
    \/ KeyQ
    \/ KeyCtrlC
    \/ KeyOther
    \/ Finally
    \/ SelectImagesExit

SpecLoop == InitLoop /\ [][NextLoop]_vars

\* the foreground alone again, in each environment of Environs
SpecDetect == InitDetect /\ [][NextLoop]_vars

\* the small windows the geometry is explored over: narrower than the file
\* list pane, two lines high, and the smallest that leaves one cell
GeometrySizes ==
    { [columns |-> 60, lines |-> 20], [columns |-> 62, lines |-> 2],
      [columns |-> 63, lines |-> 3] }

\* each environment of Sessions in each of those windows
InitGeometry ==
    InitWith(1..MaxGeometryImages, MaxGeometryKeys, Interactive,
             {[env |-> s.env, size |-> z] : s \in Sessions, z \in GeometrySizes})

SpecGeometry == InitGeometry /\ [][Next]_vars

\* the scripted session: the keys of Script and no others are read, and the
\* pre-load threads run alongside
NextScript ==
    \/ SelectImages
    \/ CheckViu
    \/ TcGetAttr
    \/ SetRaw
    \/ HideCursor
    \/ RenderLookup
    \/ RenderComplete
    \/ RenderRaises
    \/ KeyDown
    \/ KeySpace
    \/ KeyEnter
    \/ KeyA
    \/ Finally
    \/ SelectImagesExit
    \/ \E t \in BagToSet(threads) : PreloadLookup(t)
    \/ \E t \in BagToSet(threads) : PreloadComplete(t)

SpecScript == InitScript /\ [][NextScript]_vars

\* ======================================================== checked claims
\* run() has been left, by a return or by an exception
RunEnded == pc = "run_exit" \/ (pc = "done" /\ images # <<>>)
IndexOfPath(p) == CHOOSE i \in 0..(N - 1) : ImageAt(i) = p

\* C1: in every state of a session over N >= 1 candidates, whatever keys were
\* read, 0 <= cursor <= N-1 and selected is a subset of {0..N-1}; Up at index
\* 0 and Down at index N-1 leave the cursor where it is.
C1_CursorAndSelectionInRange ==
    /\ [](N >= 1 => /\ current_index \in 0..(N - 1)
                    /\ selected_indices \subseteq 0..(N - 1))
    /\ [][/\ (KeyUp /\ current_index = 0) => current_index' = 0
          /\ (KeyDown /\ current_index = N - 1) => current_index' = N - 1]_vars

C1_Witness ==
    /\ N >= 2 /\ keys_read = key_budget
    /\ current_index = N - 1
    /\ selected_indices # {}

\* C2: a run that ends without an exception returns None or a non-empty list
\* of candidate paths, and select_images never returns an empty list.
C2_NoEmptySuccess ==
    /\ (RunEnded /\ exc = "none") =>
          \/ run_result = ReturnNone
          \/ /\ run_result.kind = "list"
             /\ run_result.paths # <<>>
             /\ \A k \in 1..Len(run_result.paths) :
                   \E i \in 0..(N - 1) : run_result.paths[k] = ImageAt(i)
    /\ outcome.kind = "returned" => outcome.paths # <<>>

C2_Witness == pc = "done" /\ outcome.kind = "returned" /\ Len(outcome.paths) = 1

C5_EmptyListRefused ==
    (images = <<>> /\ pc # "select_images") =>
        /\ pc = "done"
        /\ outcome = Exit(1)
        /\ printed = <<"Error: No images provided for selection">>
        /\ ~attrs_read /\ ~raw_entered
        /\ tty_attrs = CookedMode /\ cursor_visible
        /\ frame = [clear |-> FALSE, panel |-> NoPanel, rows |-> <<>>]
        /\ threads = EmptyBag

C5_Witness == images = <<>> /\ pc = "done"

\* C6: when viu is not on the search path, run prints the installation
\* guidance and ends with SystemExit(1) before the attributes are read, raw
\* mode is entered or the cursor is hidden.
C6_MissingRendererRefused ==
    (N >= 1 /\ ~viu_on_path /\ pc \notin {"select_images", "run"}) =>
        /\ RunEnded
        /\ exc = "SystemExit"
        /\ Len(printed) = 2 /\ printed[1] = "Error: viu is not installed"
        /\ ~attrs_read /\ ~raw_entered
        /\ tty_attrs = CookedMode /\ cursor_visible
        /\ frame = [clear |-> FALSE, panel |-> NoPanel, rows |-> <<>>]
        /\ (pc = "done" => outcome = Exit(1))

C6_Witness == N >= 1 /\ ~viu_on_path /\ pc = "done"

CallsFor(key) ==
    (IF fg_call.key = key THEN 1 ELSE 0)
    + BagCardinality([t \in {u \in BagToSet(threads) : u.pc = "viu" /\ u.key = key}
                        |-> CopiesIn(t, threads)])

\* C8: no step starts a viu process for a key that is in the cache: a lookup
\* of a present key, by the compositor or by a pre-load thread, uses the
\* stored value.
C8_HitStartsNoProcess ==
    [][\A key \in DOMAIN _image_cache : CallsFor(key)' <= CallsFor(key)]_vars

C8_Witness ==
    /\ hits >= 1 /\ pc = "read_key" /\ keys_read >= 1
    /\ watch \in DOMAIN _image_cache
    /\ frame.panel = _image_cache[watch]

\* what a complete, successful rendering stored under key looks like
CompleteOutput(key) ==
    IF key[1] = "blocks"
    THEN [kind |-> "lines", data |-> [r \in 1..key[4] |-> <<key[2], key[3], r>>]]
    ELSE [kind |-> "blob", data |-> <<key[2], key[3], key[4]>>]

\* C9: every cache value is the complete output of a status-0 viu call for
\* the key's path and geometry (lines under a block key, a blob under a
\* graphics key); no failed call's output and no error text is stored.
C9_OnlyCompleteOutputCached ==
    \A key \in DOMAIN _image_cache :
        /\ key[1] = (IF supports_inline_images(environ) THEN "graphics" ELSE "blocks")
        /\ \E i \in 0..(N - 1) : key[2] = ImageAt(i)
        /\ _image_cache[key] = CompleteOutput(key)

C9_Witness == tainted /\ invoked >= 2 /\ watch \in DOMAIN _image_cache

\* C10: a key that is in the cache stays in it with the same value through
\* every step: moves, selection changes, and later writes to the same key.
C10_EntriesPersistUnchanged ==
    [][\A key \in DOMAIN _image_cache :
          /\ key \in DOMAIN _image_cache'
          /\ _image_cache'[key] = _image_cache[key]]_vars

C10_Witness == rewritten /\ Cardinality(DOMAIN _image_cache) >= 2 /\ current_index >= 1

\* a redraw is finished: the compositor has painted and gone back to the loop
RedrawDone == pc \in {"render", "viu_wait"} /\ pc' = "read_key"

\* the indices next to i that lie in 0..n-1
Neighbours(i, n) == {j \in {i - 1, i + 1} : j >= 0 /\ j < n}

\* C11: every redraw with the cursor at i starts exactly one pre-load thread
\* for each of i-1 and i+1 that lies in 0..N-1 and none for any other index
\* (not for i, not out of bounds): between zero and two, zero when N = 1; the
\* threads the model follows from then on are among those started.
C11_PreloadsNeighboursOnly ==
    [][RedrawDone =>
          /\ started' = SetToBag({StartThread(j) : j \in Neighbours(current_index, N)})
          /\ BagCardinality(started') <= 2
          /\ (N = 1 => started' = EmptyBag)
          /\ threads \sqsubseteq threads'
          /\ (threads' (-) threads) \sqsubseteq started']_vars

C11_Witness ==
    /\ pc = "read_key" /\ N = 3 /\ current_index = 1 /\ keys_read = 1
    /\ started = SetToBag({StartThread(0), StartThread(2)})

\* a step of a pre-load thread
PreloadStep == \E t \in BagToSet(threads) : PreloadLookup(t) \/ PreloadComplete(t)

\* a pre-load step leaves the cursor, the selection, the session's position and
\* result, the terminal attributes, the cursor visibility and the frame alone
PreloadLeavesSessionAlone ==
    UNCHANGED <<current_index, selected_indices, pc, keys_read, char, run_result, exc,
                outcome, printed, tty_attrs, cursor_visible, old_settings, frame,
                renderVars, fg_call>>

\* the only change a pre-load step makes to the cache is one new or rewritten
\* entry holding complete output
PreloadOnlyInserts ==
    \/ _image_cache' = _image_cache
    \/ \E t \in BagToSet(threads) :
          /\ t.pc = "viu"
          /\ _image_cache' = CachePut(_image_cache, t.key, viu_stdout(t.argv))

\* a pre-load step that writes to sys.stderr writes one record of a failed
\* call, stores nothing and ends its thread
PreloadLogsFailureOnly ==
    preload_stderr' # preload_stderr =>
        /\ preload_stderr' = preload_stderr \cup {"Pre-load failed"}
        /\ _image_cache' = _image_cache
        /\ \E t \in BagToSet(threads) :
              t.pc = "viu" /\ threads' = threads (-) SetToBag({t})

\* the foreground never waits for a pre-load thread: whatever the threads are
\* doing, its next step can be taken
ForegroundNeverWaits ==
    /\ pc = "render" => ENABLED RenderLookup
    /\ pc = "viu_wait" => ENABLED RenderComplete
    /\ (pc = "read_key" /\ keys_read < key_budget) => ENABLED KeyDown
    /\ pc = "finally" => ENABLED Finally

\* C12 as claimed: pre-load threads change neither the session nor the
\* terminal and write nothing; their only effect is a cache insertion, a failed
\* pre-load changes nothing at all, and the foreground never waits for them.
C12_PreloadOnlyFillsCache ==
    /\ [][PreloadStep => /\ PreloadLeavesSessionAlone
                         /\ PreloadOnlyInserts
                         /\ preload_stderr' = preload_stderr]_vars
    /\ []ForegroundNeverWaits

\* C12 as amended: as claimed, except that a pre-load whose viu call raised
\* (timeout, spawn error) puts one log record on sys.stderr; that step stores
\* nothing, and a pre-load ended by a non-zero exit changes nothing at all.
C12_PreloadFillsCacheOrLogs ==
    /\ [][PreloadStep => /\ PreloadLeavesSessionAlone
                         /\ PreloadOnlyInserts
                         /\ PreloadLogsFailureOnly]_vars
    /\ []ForegroundNeverWaits

C12_Witness ==
    /\ preload_stderr = {"Pre-load failed"}
    /\ threads # EmptyBag
    /\ pc = "render" /\ keys_read = key_budget

\* C13: whatever way the viu call for the image at the cursor ends (status 0,
\* non-zero exit, timeout, spawn error), in either path, the compositor
\* returns to the loop: no exception is raised, run has not returned, cursor
\* and selected are unchanged, and the next key can be read.
C13_RenderFailureAbsorbed ==
    /\ [][(pc = "viu_wait" /\ pc' # pc) =>
             /\ pc' = "read_key"
             /\ exc' = "none" /\ run_result' = NoResult /\ outcome' = NoOutcome
             /\ UNCHANGED <<current_index, selected_indices>>]_vars
    /\ []((pc = "read_key" /\ keys_read < key_budget) => ENABLED (KeyDown \/ KeySpace \/ KeyQ))

C13_Witness ==
    /\ frame.panel = Diagnostic("[Preview timed out]")
    /\ pc = "render" /\ char = "Down" /\ current_index = 1
    /\ exc = "none" /\ run_result = NoResult

\* the panels that hold diagnostic text
DiagnosticPanels ==
    {graphics_failure_panel(res) : res \in {r \in ViuResults(NoArgv) : ~Succeeded(r)}}
    \cup {blocks_failure_panel(res) : res \in {r \in ViuResults(NoArgv) : r.how # "exit"}}

\* C14: after a redraw that called viu, the image panel shows either the
\* preview (the call succeeded) or diagnostic text (the call failed by
\* timeout, non-zero exit or spawn error), in the block and the graphics path.
C14_FailureShowsDiagnostic ==
    [][(pc = "viu_wait" /\ pc' = "read_key") =>
          \/ frame'.panel = viu_stdout(fg_call.argv)
          \/ frame'.panel \in DiagnosticPanels]_vars

\* the loop has just read and decoded key
JustPressed(key) == keys_read' = keys_read + 1 /\ char' = key

C16_InterruptCancels ==
    /\ [][(pc = "read_key" /\ JustPressed("Ctrl+C")) =>
             /\ exc' = "KeyboardInterrupt" /\ run_result' = NoResult
             /\ pc' = "finally"]_vars
    /\ [](char = "Ctrl+C" =>
             /\ exc = "KeyboardInterrupt" /\ run_result = NoResult
             /\ pc \in {"finally", "run_exit", "done"}
             /\ (pc \in {"run_exit", "done"} =>
                    tty_attrs = CookedMode /\ cursor_visible)
             /\ (outcome # NoOutcome =>
                    /\ pc = "done"
                    /\ outcome = Exit(1)
                    /\ printed[Len(printed)] = "Cancelled by user"))

C16_Witness ==
    /\ char = "Ctrl+C" /\ pc = "done"
    /\ selected_indices # {}
    /\ outcome = Exit(1) /\ tty_attrs = CookedMode

\* how a finished call of select_images came about
PreconditionFailed == images = <<>> \/ ~viu_on_path
Cancelled == char \in {"q", "Escape", "Ctrl+C"}
Confirmed == char \in {"Enter", "y"} /\ run_result.kind = "list"

\* what a precondition failure hands the caller: SystemExit(1), for the empty
\* list and for the missing renderer alike
PreconditionOutcomes == {Exit(1)}

\* C17: the result select_images hands its caller tells a precondition
\* failure, a cancellation and a confirmed selection apart: a cancelled or a
\* confirmed session never ends with the result of a precondition failure, and
\* a confirmed one never with the result of a cancellation.
C17_OutcomesPairwiseDistinct ==
    pc = "done" =>
        /\ PreconditionFailed => outcome \in PreconditionOutcomes
        /\ Cancelled => outcome \notin PreconditionOutcomes
        /\ Confirmed => outcome.kind = "returned" /\ outcome \notin PreconditionOutcomes

\* C18: Enter read while nothing is selected is ignored: the loop goes on to
\* read the next key with cursor and selected unchanged; run neither returns
\* nor raises, at the first such Enter and at every later one.
C18_EnterOnEmptyIgnored ==
    [][(pc = "read_key" /\ JustPressed("Enter") /\ selected_indices = {}) =>
          /\ pc' = "read_key"
          /\ UNCHANGED <<current_index, selected_indices>>
          /\ run_result' = NoResult /\ exc' = "none" /\ outcome' = NoOutcome]_vars

C18_Witness ==
    /\ char = "Enter" /\ pc = "read_key" /\ keys_read = key_budget
    /\ selected_indices = {} /\ prev_selected = {}
    /\ run_result = NoResult /\ exc = "none"

\* C19: y or Y read in the loop, at any cursor and with any selection, sets
\* selected to {cursor} and makes run return the one-element list holding the
\* candidate at the cursor at once; select_images returns that list.
C19_QuickSelectCurrent ==
    /\ [][(pc = "read_key" /\ JustPressed("y")) =>
             /\ selected_indices' = {current_index}
             /\ current_index' = current_index
             /\ run_result' = ReturnList(<<ImageAt(current_index)>>)
             /\ exc' = "none"
             /\ pc' = "finally"]_vars
    /\ []((char = "y" /\ pc = "done") => outcome = Returned(<<ImageAt(current_index)>>))

C19_Witness ==
    /\ char = "y" /\ pc = "done"
    /\ prev_selected \ {current_index} # {}
    /\ selected_indices = {current_index}
    /\ outcome = Returned(<<ImageAt(current_index)>>)

\* C20: a or A sets selected to the empty set when all N indices are selected
\* and to {0..N-1} otherwise, from the empty and from any partial selection;
\* the cursor stays and the loop goes on to the redraw. So two presses from
\* empty give empty again, and no press gives a partial selection.
C20_ToggleSelectAll ==
    [][(pc = "read_key" /\ JustPressed("a")) =>
          /\ selected_indices' = (IF selected_indices = 0..(N - 1) THEN {} ELSE 0..(N - 1))
          /\ selected_indices' \in {{}, 0..(N - 1)}
          /\ current_index' = current_index
          /\ pc' = "render"]_vars

C20_Witness ==
    /\ char = "a" /\ pc = "render" /\ N >= 2
    /\ prev_selected = {0}
    /\ selected_indices = 0..(N - 1)

\* C21: Space read twice in a row (no key between, so the cursor has not
\* moved) leaves selected exactly as it was before the first of the two.
C21_ToggleTwiceRestores ==
    [][(pc = "read_key" /\ JustPressed("Space") /\ toggle_origin.set) =>
          /\ selected_indices' = toggle_origin.selected
          /\ current_index' = current_index]_vars

C21_Witness ==
    /\ char = "Space" /\ ~toggle_origin.set /\ keys_read = 3
    /\ N = 3 /\ current_index = 0
    /\ prev_selected = {1, 2}
    /\ selected_indices = {0, 1, 2}

\* C22: Up and Down never change selected; Space flips the membership of the
\* cursor's index and changes neither the cursor nor the membership of any
\* other index.
C22_MovesAndTogglesIndependent ==
    [][pc = "read_key" =>
          /\ (JustPressed("Up") \/ JustPressed("Down")) =>
                 selected_indices' = selected_indices
          /\ JustPressed("Space") =>
                 /\ current_index' = current_index
                 /\ (current_index \in selected_indices') # (current_index \in selected_indices)
                 /\ \A j \in (0..(N - 1)) \ {current_index} :
                       (j \in selected_indices') = (j \in selected_indices)]_vars

C22_Witness ==
    /\ char = "Down" /\ pc = "render" /\ keys_read = 2
    /\ current_index = 1
    /\ prev_selected = {0} /\ selected_indices = {0}

\* C23: with candidates [a, b, c] and the keys Down, Down, Space, a, Enter,
\* the session starts at cursor 0 with nothing selected, has the cursor at 2
\* after the second Down, selected = {2} after Space and {0, 1, 2} after a,
\* and Enter makes run return [a, b, c], which select_images returns; the
\* session ends earlier only when viu is missing or the redraw raises.
C23_ScriptedSession ==
    /\ keys_read = 0 => current_index = 0 /\ selected_indices = {}
    /\ keys_read = 1 => current_index = 1 /\ selected_indices = {}
    /\ keys_read = 2 => current_index = 2 /\ selected_indices = {}
    /\ keys_read = 3 => current_index = 2 /\ selected_indices = {2}
    /\ keys_read = 4 => current_index = 2 /\ selected_indices = {0, 1, 2}
    /\ keys_read = 5 => /\ selected_indices = {0, 1, 2}
                        /\ run_result = ReturnList(<<"a.jpg", "b.jpg", "c.jpg">>)
                        /\ exc = "none"
    /\ pc = "done" =>
          IF keys_read = 5 THEN outcome = Returned(<<"a.jpg", "b.jpg", "c.jpg">>)
          ELSE ~viu_on_path \/ exc = "OSError"

C23_Witness ==
    /\ stdin = Script /\ images = <<"a.jpg", "b.jpg", "c.jpg">>
    /\ pc = "done" /\ keys_read = 5
    /\ outcome = Returned(<<"a.jpg", "b.jpg", "c.jpg">>)

\* some key is read
AnyKey ==
    \/ KeyUp \/ KeyDown \/ KeyEscape \/ KeySpace \/ KeyEnter \/ KeyY \/ KeyA \/ KeyQ
    \/ KeyCtrlC \/ KeyOther

\* no key is read while a redraw is due or under way
NoKeyDuringRedraw == pc \in {"render", "viu_wait"} => ~ENABLED AnyKey

\* C24 as claimed: every key after which the loop goes on (Up, Down, Space,
\* a/A, Enter with nothing selected) is followed by a redraw before the next
\* key is read.
C24_EveryBrowsingKeyRedraws ==
    /\ [][(pc = "read_key" /\ keys_read' = keys_read + 1 /\ pc' # "finally") =>
             pc' = "render"]_vars
    /\ []NoKeyDuringRedraw

\* C24 as amended: Up, Down, Space, a/A and any unrecognised key are followed
\* by a redraw before the next key is read; Enter with nothing selected is
\* not: the loop reads the next key at once and the frame stays as it was.
C24_BrowsingKeysRedrawExceptIgnoredEnter ==
    /\ [][(pc = "read_key" /\ keys_read' = keys_read + 1 /\ pc' # "finally") =>
             IF JustPressed("Enter")
             THEN pc' = "read_key" /\ frame' = frame /\ dispatch' = dispatch
             ELSE pc' = "render"]_vars
    /\ []NoKeyDuringRedraw

C24_Witness ==
    /\ char = "Space" /\ pc = "render" /\ keys_read = 2
    /\ prev_selected = {} /\ selected_indices = {current_index}
    /\ dispatch # NoDispatch

\* run has returned or raised: the session is Confirmed or Cancelled
Ended == pc \in {"finally", "run_exit", "done"}

\* C25: once run has returned or raised, the foreground starts no redraw, no
\* viu call and no pre-load thread; it neither waits for the live pre-load
\* threads nor ends them: each of them can still take its next step, and
\* its steps change neither what run returned nor what select_images hands on.
C25_NoWorkAfterEnd ==
    /\ [][Ended =>
             /\ Ended'
             /\ fg_call = NoCall /\ fg_call' = NoCall
             /\ dispatch' = dispatch /\ _first_render' = _first_render
             /\ started' = started
             /\ threads' \sqsubseteq threads \/ PreloadStep
             /\ BagCardinality(threads') <= BagCardinality(threads)
             /\ pc' # pc => threads' = threads
             /\ run_result' = run_result /\ exc' = exc
             /\ PreloadStep => outcome' = outcome /\ printed' = printed]_vars
    /\ [](Ended => /\ pc = "finally" => ENABLED Finally
                   /\ pc = "run_exit" => ENABLED SelectImagesExit
                   /\ \A t \in BagToSet(threads) :
                         ENABLED (PreloadLookup(t) \/ PreloadComplete(t)))

C25_Witness ==
    /\ pc = "done" /\ outcome.kind = "returned"
    /\ \E t \in BagToSet(threads) : t.pc = "viu" /\ ENABLED PreloadComplete(t)

\* the path the session's redraws have taken is the one for protocol
DispatchedAs(protocol) ==
    dispatch # NoDispatch =>
        dispatch.path = (IF protocol = "blocks" THEN "blocks" ELSE "graphics")

\* the substrings of TERM the detection looks for
Frags(term) == {term[i] : i \in 1..Len(term)}

\* C26: whenever TMUX or STY is set to a non-empty value, the detected
\* protocol is blocks and the session's redraws take the block path, whatever
\* TERM_PROGRAM and TERM hold (iTerm2, Ghostty, Kitty and Sixel markers
\* included).
C26_MultiplexerForcesBlocks ==
    (environ.TMUX \notin {Unset, ""} \/ environ.STY \notin {Unset, ""}) =>
        /\ detect_graphics_protocol(environ) = "blocks"
        /\ ~supports_inline_images(environ)
        /\ DispatchedAs("blocks")

C26_Witness ==
    /\ environ.STY \notin {Unset, ""} /\ environ.TMUX = Unset
    /\ environ.TERM_PROGRAM = "iTerm.app"
    /\ Frags(environ.TERM) = {"xterm-", "kitty", "-", "sixel"}
    /\ dispatch.path = "blocks" /\ pc = "read_key"

\* C27: with TMUX and STY unset (or empty), TERM_PROGRAM = iTerm.app gives
\* iterm whatever TERM contains; otherwise TERM_PROGRAM = ghostty, or TERM
\* containing ghostty or kitty, gives kitty also when TERM contains sixel;
\* otherwise TERM containing sixel gives sixel; otherwise blocks. The
\* session's redraws take the path of that protocol.
C27_DetectionPriority ==
    (environ.TMUX \in {Unset, ""} /\ environ.STY \in {Unset, ""}) =>
        LET tp == environ.TERM_PROGRAM
            fr == Frags(environ.TERM)
            protocol == detect_graphics_protocol(environ)
            kittyLike == tp = "ghostty" \/ "ghostty" \in fr \/ "kitty" \in fr
        IN /\ tp = "iTerm.app" => protocol = "iterm"
           /\ (tp # "iTerm.app" /\ kittyLike) => protocol = "kitty"
           /\ (tp # "iTerm.app" /\ ~kittyLike /\ "sixel" \in fr) => protocol = "sixel"
           /\ (tp # "iTerm.app" /\ ~kittyLike /\ "sixel" \notin fr) => protocol = "blocks"
           /\ DispatchedAs(protocol)

C27_Witness ==
    /\ environ.TMUX = Unset /\ environ.STY = Unset
    /\ environ.TERM_PROGRAM = "Apple_Terminal"
    /\ Frags(environ.TERM) = {"xterm-", "kitty", "-", "sixel"}
    /\ detect_graphics_protocol(environ) = "kitty"
    /\ dispatch.path = "graphics" /\ pc = "read_key"

\* a redraw begins: render_with_preview is called and picks its path
RedrawBegins == pc = "render" /\ pc' \in {"read_key", "viu_wait"}

\* C28: every redraw runs one path, the graphics path when the detected
\* protocol is iterm, kitty or sixel (exactly when supports_inline_images
\* holds) and the block path otherwise; the viu call it makes is that path's;
\* full_render is handed to the block path only, and for neither value of
\* full_render would another path have run.
C28_PathChosenByProtocolAlone ==
    [][RedrawBegins =>
          LET protocol == detect_graphics_protocol(environ)
              path == IF protocol \in {"iterm", "kitty", "sixel"} THEN "graphics"
                      ELSE "blocks"
          IN /\ dispatch'.path = path
             /\ (dispatch'.path = "graphics") = supports_inline_images(environ)
             /\ (protocol = "blocks") = (dispatch'.path = "blocks")
             /\ dispatch'.full_render = (IF path = "blocks" THEN default_full_render
                                         ELSE NoArg)
             /\ fg_call' # NoCall => /\ fg_call'.key[1] = path
                                      /\ fg_call'.argv.b = (path = "blocks")
             /\ \A hint \in BOOLEAN :
                   render_with_preview(protocol, hint) =
                       [path |-> path,
                        full_render |-> IF path = "blocks" THEN hint ELSE NoArg]]_vars

C28_Witness ==
    /\ detect_graphics_protocol(environ) = "sixel"
    /\ dispatch = [path |-> "graphics", full_render |-> NoArg]
    /\ pc = "viu_wait" /\ keys_read = 1
    /\ fg_call.key[1] = "graphics"

C30_BlocksHonoursFullRender ==
    [][(RedrawBegins /\ dispatch'.path = "blocks") =>
          frame'.clear = dispatch'.full_render]_vars

\* C39: a multiplexer marker (TMUX or STY) present in the environment, an
\* empty value included, makes detect_graphics_protocol return blocks and the
\* session's redraws take the block path, whatever TERM_PROGRAM and TERM hold.
C39_EmptyMarkerForcesBlocks ==
    (environ.TMUX # Unset \/ environ.STY # Unset) =>
        /\ detect_graphics_protocol(environ) = "blocks"
        /\ DispatchedAs("blocks")

\* the protocols detect_graphics_protocol can return
Protocols == {"blocks", "iterm", "kitty", "sixel"}

\* the key the compositor looks up with the cursor at index j
RenderKey(j) ==
    render_plan(render_mode(detect_graphics_protocol(environ)), ImageAt(j),
                terminal_size).key

\* C34: for every index, protocol and terminal size the pre-loader's key and
\* viu arguments (and so the format of the value it stores) are the
\* compositor's; every value a pre-load thread stores is under the key the
\* compositor looks up for that index and is what the compositor would have
\* stored; and the compositor starts viu only for a key that is not cached,
\* so a completed successful pre-load makes the later lookup a hit.
C34_PreloadMatchesCompositor ==
    /\ [](\A j \in 0..(N - 1), protocol \in Protocols,
              size \in GeometrySizes \cup {s.size : s \in Sessions} :
             preload_plan(preload_mode(protocol), ImageAt(j), size)
                 = render_plan(render_mode(protocol), ImageAt(j), size))
    /\ [][\A t \in BagToSet(threads) :
             (PreloadComplete(t) /\ _image_cache' # _image_cache) =>
                 /\ t.key = RenderKey(t.index)
                 /\ CacheHas(_image_cache', RenderKey(t.index))
                 /\ _image_cache'[RenderKey(t.index)] = CompleteOutput(RenderKey(t.index))]_vars
    /\ [][(RedrawBegins /\ CacheHas(_image_cache, RenderKey(current_index))) =>
             /\ pc' = "read_key" /\ fg_call' = NoCall
             /\ frame'.panel = _image_cache[RenderKey(current_index)]]_vars

\* the cursor has moved to the second image, which only a pre-load thread
\* can have cached, and the redraw is about to look it up
C34_Witness ==
    /\ pc = "render" /\ keys_read = 1 /\ current_index = 1
    /\ CacheHas(_image_cache, RenderKey(1))
    /\ terminal_size = [columns |-> 63, lines |-> 3]
    /\ supports_inline_images(environ)

\* C38: the width and the height handed to viu, by the compositor and by the
\* pre-load threads, are at least 1 in every window.
C38_RequestedSizePositive ==
    /\ fg_call # NoCall => fg_call.argv.w >= 1 /\ fg_call.argv.h >= 1
    /\ \A t \in BagToSet(threads) :
          t.pc = "viu" => t.argv.w >= 1 /\ t.argv.h >= 1

\* the sessions of Sessions with a viu that prints the -h lines it is given
\* or one line more
InitLines ==
    /\ InitSession(1..MaxLinesImages, MaxLinesKeys, Interactive, Sessions, {0, 1})
    /\ s3_objects = {}
    /\ dry_run = FALSE

SpecLines == InitLines /\ [][Next]_vars

\* C31: in block mode neither the lines painted for a frame nor the lines
\* stored in the cache, by the compositor or by a pre-load thread, number more
\* than the image height computed for the window.
C31_BlockLinesWithinHeight ==
    /\ \A key \in DOMAIN _image_cache :
          key[1] = "blocks" => Len(_image_cache[key].data) <= key[4]
    /\ (dispatch.path = "blocks" /\ frame.panel.kind = "lines") =>
          Len(frame.panel.data) <= render_blocks_dims(terminal_size).height

\* C35: when a block-path redraw is finished, every row of the image column
\* that shows anything shows a line of the image at the cursor (or the error
\* text of the failed call): no row shows a line of another image.
C35_NoStaleRows ==
    [][(RedrawDone /\ dispatch'.path = "blocks") =>
          \A r \in DOMAIN frame'.rows :
              frame'.rows[r] \in {ImageAt(current_index'), ErrorRow}]_vars

\* the bytes the byte-level sessions are built from
Bytes == {ESC, "[", "A", "B", " "}

\* every input of at most MaxBytes of those bytes, followed by end of input
ByteScripts == UNION {[1..n -> Bytes] : n \in 0..MaxBytes}

\* sessions of two candidates whose standard input is one of ByteScripts
InitBytes == \E b \in ByteScripts : InitWith({2}, MaxBytes, b, Sessions)

\* the foreground alone, reading those bytes
NextBytes ==
    \/ SelectImages
    \/ CheckViu
    \/ TcGetAttr
    \/ SetRaw
    \/ HideCursor
    \/ RenderLookup
    \/ RenderComplete
    \/ RenderRaises
    \/ KeyUp
    \/ KeyDown
    \/ KeyEscape
    \/ KeySpace
    \/ KeyOther
    \/ KeyEof
    \/ Finally
    \/ SelectImagesExit

\* the foreground is one thread that is never suspended: whenever it can take
\* a step it takes one
SpecBytes == InitBytes /\ [][NextBytes]_vars /\ WF_vars(NextBytes)

\* the i-th byte waiting on standard input
Ahead(i) == ByteAt(stdin, consumed + i)

C37_EofEndsSession == (char = "EOF") ~> RunEnded

\* C32: every viu call the foreground makes comes back (with a status, a
\* time-out or a spawn error), so a redraw that is due or under way is
\* followed by the loop reading the next key, unless the redraw raised.
C32_RendererCallsReturn ==
    /\ (pc = "viu_wait") ~> (pc = "read_key" /\ fg_call = NoCall)
    /\ (pc = "render") ~> (pc \in {"read_key", "finally"})

\* a block-path call that timed out has been absorbed and the loop is back
\* at the read, with input still to come
C32_Witness ==
    /\ stdin # Interactive /\ consumed < Len(stdin)
    /\ pc = "read_key" /\ keys_read = 0 /\ fg_call = NoCall
    /\ frame.panel = [kind |-> "lines", data |-> <<"[Preview error: timeout]">>]

\* ------------------------------------------------- main after the selection
tuiVars == <<envVars, sizeVars, ttyVars, frame, pc, selVars, renderVars, cacheVars,
             fg_call, threads, endVars, keyVars, obsVars>>

\* what select_images handed to main
selected_images == IF outcome.kind = "returned" THEN outcome.paths ELSE <<>>

\* image_path.name: the candidates come from one folder, so a path stands
\* for its file name
Filenames(paths) == {paths[i] : i \in 1..Len(paths)}

\* len(images) > 10 picks _check_parallel
parallel_threshold == 10

\* a check that stops at the first duplicate it finds
unchecked_failFast(paths) ==
    IF duplicates # <<>> THEN {}
    ELSE {i \in 1..Len(paths) : paths[i] \notin head_checked}

\* the images whose HeadObject request is still to be made
unchecked(paths) == {i \in 1..Len(paths) : paths[i] \notin head_checked}

\* select_images has returned or raised SystemExit, which main turns into
\* return 1; any other exception leaves main as it is
MainSelected ==
    /\ main_pc = "select_images" /\ pc = "done"
    /\ IF outcome.kind = "returned"
       THEN main_pc' = "confirm" /\ UNCHANGED exit_code
       ELSE main_pc' = "exit" /\ exit_code' = 1
    /\ UNCHANGED <<s3_objects, dry_run, head_checked, duplicates, reported,
                   processed_images, uploaded_keys>>
    /\ UNCHANGED tuiVars

\* browse_s3_folders and confirm_upload: either raises SystemExit (return 1),
\* otherwise main goes on to the dry run or to the duplicate check
MainConfirm ==
    /\ main_pc = "confirm"
    /\ \/ main_pc' = "exit" /\ exit_code' = 1
       \/ /\ main_pc' = (IF dry_run THEN "dry_run" ELSE "check_for_duplicates")
          /\ UNCHANGED exit_code
    /\ UNCHANGED <<s3_objects, dry_run, head_checked, duplicates, reported,
                   processed_images, uploaded_keys>>
    /\ UNCHANGED tuiVars

\* dry_run_upload: processes the images for the size report and always exits
MainDryRun ==
    /\ main_pc = "dry_run"
    /\ \E k \in 0..Len(selected_images) :
          /\ processed_images' = SubSeq(selected_images, 1, k)
          /\ exit_code' = (IF k = Len(selected_images) THEN 0 ELSE 1)
    /\ main_pc' = "exit"
    /\ UNCHANGED <<s3_objects, dry_run, head_checked, duplicates, reported, uploaded_keys>>
    /\ UNCHANGED tuiVars

\* check_for_duplicates up to the checks: the AWS session is created, or
\* SystemExit(1) is raised
CheckForDuplicates ==
    /\ main_pc = "check_for_duplicates"
    /\ \/ main_pc' = "exit" /\ exit_code' = 1
       \/ main_pc' = "_key_exists" /\ UNCHANGED exit_code
    /\ UNCHANGED <<s3_objects, dry_run, head_checked, duplicates, reported,
                   processed_images, uploaded_keys>>
    /\ UNCHANGED tuiVars

\* one HeadObject request: in list order (_check_sequential) or, for more
\* than ten images, in the order the requests complete (_check_parallel);
\* a 403 or any other error raises SystemExit(1)
KeyExists ==
    /\ main_pc = "_key_exists"
    /\ \E i \in unchecked(selected_images) :
          /\ \/ Len(selected_images) > parallel_threshold
             \/ \A j \in unchecked(selected_images) : i <= j
          /\ head_checked' = head_checked \cup {selected_images[i]}
          /\ \/ /\ duplicates' = (IF selected_images[i] \in s3_objects
                                  THEN Append(duplicates, selected_images[i])
                                  ELSE duplicates)
                /\ UNCHANGED <<main_pc, exit_code>>
             \/ /\ main_pc' = "exit" /\ exit_code' = 1
                /\ UNCHANGED duplicates
    /\ UNCHANGED <<s3_objects, dry_run, reported, processed_images, uploaded_keys>>
    /\ UNCHANGED tuiVars

\* the checks are done: DuplicateFilesError with every duplicate found, which
\* main prints and turns into return 1, or the return to main
CheckDone ==
    /\ main_pc = "_key_exists"
    /\ unchecked(selected_images) = {}
    /\ IF duplicates # <<>>
       THEN /\ reported' = duplicates
            /\ main_pc' = "exit" /\ exit_code' = 1
       ELSE /\ main_pc' = "process_images"
            /\ UNCHANGED <<reported, exit_code>>
    /\ UNCHANGED <<s3_objects, dry_run, head_checked, duplicates,
                   processed_images, uploaded_keys>>
    /\ UNCHANGED tuiVars

\* process_images, one image of the loop: optimised, or ProcessingError
\* (return 1); after the last one main goes on to the upload
ProcessImages ==
    /\ main_pc = "process_images"
    /\ IF Len(processed_images) = Len(selected_images)
       THEN /\ main_pc' = "upload_images"
            /\ UNCHANGED <<processed_images, exit_code>>
       ELSE \/ /\ processed_images' =
                     Append(processed_images, selected_images[Len(processed_images) + 1])
               /\ UNCHANGED <<main_pc, exit_code>>
            \/ /\ main_pc' = "exit" /\ exit_code' = 1
               /\ UNCHANGED processed_images
    /\ UNCHANGED <<s3_objects, dry_run, head_checked, duplicates, reported, uploaded_keys>>
    /\ UNCHANGED tuiVars

\* upload_images, one file of the loop: uploaded, or UploadError (return 1);
\* after the last one main returns 0
UploadImages ==
    /\ main_pc = "upload_images"
    /\ IF Len(uploaded_keys) = Len(processed_images)
       THEN /\ main_pc' = "exit" /\ exit_code' = 0
            /\ UNCHANGED uploaded_keys
       ELSE \/ /\ uploaded_keys' =
                     Append(uploaded_keys, processed_images[Len(uploaded_keys) + 1])
               /\ UNCHANGED <<main_pc, exit_code>>
            \/ /\ main_pc' = "exit" /\ exit_code' = 1
               /\ UNCHANGED uploaded_keys
    /\ UNCHANGED <<s3_objects, dry_run, head_checked, duplicates, reported, processed_images>>
    /\ UNCHANGED tuiVars

\* the operator selects every candidate, or the first one, and confirms
UploadScripts == { <<"a", CR>>, <<" ", CR>> }

\* runs of main: any of the candidates may already be under the prefix
InitUpload ==
    /\ \E b \in UploadScripts :
          InitSession(1..MaxUploadImages, 2, b, Sessions, {0})
    /\ s3_objects \in SUBSET Filenames(images)
    /\ dry_run \in BOOLEAN

NextUpload ==
    \/ SelectImages
    \/ CheckViu
    \/ TcGetAttr
    \/ SetRaw
    \/ HideCursor
    \/ RenderLookup
    \/ RenderComplete
    \/ RenderRaises
    \/ KeySpace
    \/ KeyA
    \/ KeyEnter
    \/ Finally
    \/ SelectImagesExit
    \/ MainSelected
    \/ MainConfirm
    \/ MainDryRun
    \/ CheckForDuplicates
    \/ KeyExists
    \/ CheckDone
    \/ ProcessImages
    \/ UploadImages

SpecUpload == InitUpload /\ [][NextUpload]_vars

====
